---------------------------- MODULE Spec2Model ----------------------------
(***************************************************************************)
(* A model of tt_time/cli.py, the tiny terminal time tracker: the ledger   *)
(* commands (start, stop, log, clear, Ctrl-C / signal finalization) and    *)
(* the monthly report (clamp, split by day, aggregate, group by ISO week). *)
(*                                                                         *)
(* Encoding of Python values:                                              *)
(*   datetime   an integer, the seconds since 2000-01-01T00:00:00 (naive   *)
(*              local time, second resolution)                             *)
(*   timedelta  an integer number of seconds                               *)
(*   date       an integer, the days since 2000-01-01                      *)
(*   an ISO timestamp string   the tuple of its fields <<Y,M,D,h,m,s>>     *)
(*   a date's isoformat()      the tuple <<Y,M,D>>                         *)
(*   any other str             the tuple of its characters                 *)
(*   None                      the empty tuple (falsy, like None and "")   *)
(*   a dict                    a function on its keys                      *)
(***************************************************************************)
EXTENDS Integers, Sequences, FiniteSets, TLC

None == <<>>

Max(a, b) == IF a >= b THEN a ELSE b
Min(a, b) == IF a <= b THEN a ELSE b

\* dict.get(k, default)
Get(e, k, default) == IF k \in DOMAIN e THEN e[k] ELSE default

\* d[k] = v on a dict
Put(f, k, v) == [x \in (DOMAIN f) \cup {k} |-> IF x = k THEN v ELSE f[x]]

RECURSIVE SumSeq(_)
SumSeq(s) == IF s = <<>> THEN 0 ELSE Head(s) + SumSeq(Tail(s))

RECURSIVE SumOver(_, _)
\* the sum of f[k] over the keys k in S
SumOver(f, S) ==
    IF S = {} THEN 0
    ELSE LET k == CHOOSE x \in S : TRUE IN f[k] + SumOver(f, S \ {k})

(***************************************************************************)
(* The proleptic Gregorian calendar of datetime.date, as the standard      *)
(* library computes it (ordinal 1 is 0001-01-01).                          *)
(***************************************************************************)
is_leap(y) == y % 4 = 0 /\ (y % 100 # 0 \/ y % 400 = 0)

days_before_year(y) ==
    LET p == y - 1 IN p * 365 + (p \div 4) - (p \div 100) + (p \div 400)

days_in_month(y, m) ==
    IF m = 2 THEN (IF is_leap(y) THEN 29 ELSE 28)
    ELSE IF m \in {4, 6, 9, 11} THEN 30 ELSE 31

RECURSIVE days_before_month(_, _)
days_before_month(y, m) ==
    IF m = 1 THEN 0 ELSE days_before_month(y, m - 1) + days_in_month(y, m - 1)

ymd2ord(y, m, d) == days_before_year(y) + days_before_month(y, m) + d

ord2ymd(ordinal) ==
    LET n0   == ordinal - 1
        n400 == n0 \div 146097
        r400 == n0 % 146097
        n100 == r400 \div 36524
        r100 == r400 % 36524
        n4   == r100 \div 1461
        r4   == r100 % 1461
        n1   == r4 \div 365
        n    == r4 % 365
        year == n400 * 400 + 1 + n100 * 100 + n4 * 4 + n1
    IN  IF n1 = 4 \/ n100 = 4 THEN <<year - 1, 12, 31>>
        ELSE LET month0 == (n + 50) \div 32
                 prec0  == days_before_month(year, month0)
                 month  == IF prec0 > n THEN month0 - 1 ELSE month0
                 prec   == IF prec0 > n THEN prec0 - days_in_month(year, month)
                                        ELSE prec0
             IN  <<year, month, n - prec + 1>>

EpochOrdinal == ymd2ord(2000, 1, 1)

\* date(y, m, d)
Date(y, m, d) == ymd2ord(y, m, d) - EpochOrdinal

\* datetime(y, m, d, hh, mm, ss)
DateTime(y, m, d, hh, mm, ss) == Date(y, m, d) * 86400 + hh * 3600 + mm * 60 + ss

\* dt.date()
DateOf(dt) == dt \div 86400

\* datetime.combine(d, datetime.min.time())
Combine(d) == d * 86400

\* date.isoformat(): the fields of "YYYY-MM-DD"
date_isoformat(d) == ord2ymd(d + EpochOrdinal)

\* datetime.isoformat(): the fields of "YYYY-MM-DDTHH:MM:SS"
isoformat(dt) ==
    LET ymd == date_isoformat(DateOf(dt))
        sod == dt % 86400
    IN  <<ymd[1], ymd[2], ymd[3], sod \div 3600, (sod % 3600) \div 60, sod % 60>>

\* whether datetime.fromisoformat(s) returns (it raises ValueError otherwise)
IsIso(s) ==
    /\ Len(s) = 6
    /\ s[1] \in 1..9999
    /\ s[2] \in 1..12
    /\ s[3] >= 1
    /\ s[3] <= days_in_month(s[1], s[2])
    /\ s[4] \in 0..23
    /\ s[5] \in 0..59
    /\ s[6] \in 0..59

\* datetime.fromisoformat(s), for a string it accepts
fromisoformat(s) == DateTime(s[1], s[2], s[3], s[4], s[5], s[6])

\* date.isocalendar(): the first Monday of ISO week 1 of a year, as an ordinal
isoweek1monday(year) ==
    LET firstday     == ymd2ord(year, 1, 1)
        firstweekday == (firstday + 6) % 7
        week1monday  == firstday - firstweekday
    IN  IF firstweekday > 3 THEN week1monday + 7 ELSE week1monday

\* date.isocalendar(): <<ISO year, ISO week, ISO weekday>>
isocalendar(d) ==
    LET ymd   == date_isoformat(d)
        year  == ymd[1]
        today == ymd2ord(ymd[1], ymd[2], ymd[3])
        week  == (today - isoweek1monday(year)) \div 7
        day   == (today - isoweek1monday(year)) % 7
    IN  IF week < 0
        THEN <<year - 1, ((today - isoweek1monday(year - 1)) \div 7) + 1,
               ((today - isoweek1monday(year - 1)) % 7) + 1>>
        ELSE IF week >= 52 /\ today >= isoweek1monday(year + 1)
        THEN <<year + 1, 1, day + 1>>
        ELSE <<year, week + 1, day + 1>>

(***************************************************************************)
(* Bounds of the model.                                                    *)
(***************************************************************************)
\* the ledger commands stop appending at this many entries
MaxLedger == 2
\* the wall clock advances at most this many times
MaxTicks == 2
\* at most this many start commands are in their clock loop at once
MaxClocks == 1
\* a report input (the ledger file as found on disk) holds at most this many records
MaxRecords == 2
\* the calendar months the week grouping is run on: January of the first year
\* to December of the last
FirstYear == 2020
LastYear == 2026

(***************************************************************************)
(* Duration input: parse_duration and the plain-hours path of cmd_log.     *)
(***************************************************************************)
Digits == {"0", "1", "2", "3", "4", "5", "6", "7", "8", "9"}

DigitValue(ch) ==
    CASE ch = "0" -> 0 [] ch = "1" -> 1 [] ch = "2" -> 2 [] ch = "3" -> 3
      [] ch = "4" -> 4 [] ch = "5" -> 5 [] ch = "6" -> 6 [] ch = "7" -> 7
      [] ch = "8" -> 8 [] ch = "9" -> 9

RECURSIVE IntOf(_)
\* int(num) for a run of digits
IntOf(num) ==
    IF num = <<>> THEN 0
    ELSE IntOf(SubSeq(num, 1, Len(num) - 1)) * 10 + DigitValue(num[Len(num)])

RECURSIVE Strip(_)
\* str.strip()
Strip(s) ==
    IF s = <<>> THEN s
    ELSE IF Head(s) = " " THEN Strip(Tail(s))
    ELSE IF s[Len(s)] = " " THEN Strip(SubSeq(s, 1, Len(s) - 1))
    ELSE s

\* str.lower()
Lower(s) == [i \in DOMAIN s |-> IF s[i] = "H" THEN "h" ELSE IF s[i] = "M" THEN "m" ELSE s[i]]

\* str.isdigit()
IsDigitStr(s) == s # <<>> /\ \A i \in DOMAIN s : s[i] \in Digits

\* a variant of UnitValue: an hour counts as a minute
UnitValue_Minutes(ch, num) == IntOf(num)

\* what a digit run followed by the unit ch adds to the total, in minutes
UnitValue(ch, num) == IF ch = "h" THEN IntOf(num) * 60 ELSE IntOf(num)

\* a variant of ScanEnd: a total of 0 is returned as it is
ScanEnd_AnyTotal(total, num, had_unit) ==
    [ok      |-> TRUE,
     minutes |-> IF num # <<>> /\ ~had_unit THEN total + IntOf(num) ELSE total]

\* a variant of ScanEnd: the digits left over are minutes, after a unit too
ScanEnd_TrailingMinutes(total, num, had_unit) ==
    LET t == IF num # <<>> THEN total + IntOf(num) ELSE total
    IN  IF t <= 0 THEN [ok |-> FALSE, minutes |-> 0]
                  ELSE [ok |-> TRUE, minutes |-> t]

\* the end of parse_duration, after the scanning loop: the digits left over
\* and the check of the total
ScanEnd(total, num, had_unit) ==
    LET t == IF num # <<>> /\ ~had_unit THEN total + IntOf(num) ELSE total
    IN  IF t <= 0 THEN [ok |-> FALSE, minutes |-> 0]
                  ELSE [ok |-> TRUE, minutes |-> t]

RECURSIVE ScanDuration(_, _, _, _)
\* the scanning loop of parse_duration from the given loop state on; the
\* result is the duration in minutes, or an error
ScanDuration(s, total, num, had_unit) ==
    IF s = <<>>
    THEN ScanEnd(total, num, had_unit)
    ELSE LET ch == Head(s) IN
         IF ch \in Digits THEN ScanDuration(Tail(s), total, Append(num, ch), had_unit)
         ELSE IF ch \in {"h", "m"}
         THEN IF num = <<>> THEN [ok |-> FALSE, minutes |-> 0]
              ELSE ScanDuration(Tail(s), total + UnitValue(ch, num), <<>>, TRUE)
         ELSE IF ch = ":" THEN ScanDuration(Tail(s), total, num, had_unit)
         ELSE [ok |-> FALSE, minutes |-> 0]

parse_duration(s) == ScanDuration(Lower(Strip(s)), 0, <<>>, FALSE)

RECURSIVE RemoveFirstDot(_)
\* txt.replace(".", "", 1)
RemoveFirstDot(s) ==
    IF s = <<>> THEN s
    ELSE IF Head(s) = "." THEN Tail(s)
    ELSE <<Head(s)>> \o RemoveFirstDot(Tail(s))

RECURSIVE DecimalsOf(_)
\* the number of characters after the first "." of s (0 without one)
DecimalsOf(s) ==
    IF s = <<>> THEN 0
    ELSE IF Head(s) = "." THEN Len(s) - 1
    ELSE DecimalsOf(Tail(s))

RECURSIVE Pow10(_)
Pow10(k) == IF k = 0 THEN 1 ELSE 10 * Pow10(k - 1)

\* the duration cmd_log gives a duration argument: whole seconds (what
\* int(dur.total_seconds()) keeps of it), or an error
LogDuration(duration) ==
    LET txt == Strip(duration) IN
    IF IsDigitStr(RemoveFirstDot(txt))
    THEN LET n == IntOf(RemoveFirstDot(txt))
         IN  IF n <= 0 THEN [ok |-> FALSE, seconds |-> 0]
             ELSE [ok |-> TRUE, seconds |-> (n * 3600) \div Pow10(DecimalsOf(txt))]
    ELSE LET r == parse_duration(txt)
         IN  [ok |-> r.ok, seconds |-> r.minutes * 60]

\* _secs_to_hms: the fields of "HH:MM:SS"
secs_to_hms(total_seconds) ==
    LET t == IF total_seconds < 0 THEN 0 ELSE total_seconds
    IN  <<t \div 3600, (t % 3600) \div 60, t % 60>>

(***************************************************************************)
(* The ledger file.                                                        *)
(***************************************************************************)
essential_keys == {"project", "start", "end"}

\* what save_data writes for data: every entry gets the three essential keys
save_data(data) ==
    [i \in DOMAIN data |->
        [k \in essential_keys \cup DOMAIN data[i] |-> Get(data[i], k, None)]]

\* a variant of Active: the end of the last entry is not looked at
Active_AnyEntry(data) == data # <<>>

\* a variant of Active: no timer is ever found running
Active_Never(data) == FALSE

\* data and data[-1].get("end") is None
Active(data) == data # <<>> /\ Get(data[Len(data)], "end", None) = None

\* a variant of SetLast: the keys of upd are set on every entry
SetLast_All(data, upd) ==
    [i \in DOMAIN data |->
        [k \in DOMAIN data[i] \cup DOMAIN upd |->
            IF k \in DOMAIN upd THEN upd[k] ELSE data[i][k]]]

\* data with the keys of upd set on its last entry
SetLast(data, upd) ==
    [data EXCEPT ![Len(data)] =
        [k \in DOMAIN data[Len(data)] \cup DOMAIN upd |->
            IF k \in DOMAIN upd THEN upd[k] ELSE data[Len(data)][k]]]

\* a variant of CloseLast: the duration fields are not written
CloseLast_NoDuration(data, end_dt) == SetLast(data, [end |-> isoformat(end_dt)])

\* the last entry closed at end_dt, as cmd_stop and both finalizations do it
CloseLast(data, end_dt) ==
    LET start_s == data[Len(data)]["start"] IN
    IF IsIso(start_s)
    THEN LET secs == end_dt - fromisoformat(start_s)
         IN  SetLast(data, [end |-> isoformat(end_dt), duration_seconds |-> secs,
                            duration |-> secs_to_hms(secs)])
    ELSE SetLast(data, [end |-> isoformat(end_dt)])

Projects == {"alpha", "beta"}

\* duration arguments given to the log command: accepted by parse_duration,
\* accepted as plain hours, rejected by either
LogTexts == { <<"4", "5", "m">>, <<"3", ".", "5">>, <<"0">>, <<"1", "x">> }

\* the clock's steps: half an hour, a day
TickSteps == {1800, 86400}

VARIABLES
    ledger,     \* the ledger file: the list of entries
    clock,      \* the wall clock, datetime.now()
    ticks,      \* how many times the clock has advanced
    clocks,     \* how many start commands are in their clock loop
    last,       \* the last command run
    out,        \* what it printed
    \* the locals of a running cmd_report
    rpc, data, now, month_start, month_end, idx, proj, interval,
    cur_start, cur_end, segs, per_day_totals, monthly_project_totals,
    days, weeks,
    printed,    \* what cmd_report wrote to its standard output
    exported,   \* the CSV file cmd_report wrote
    arg,        \* a duration argument, as typed on the command line
    parsed,     \* what parse_duration made of it
    procs,      \* the commands that run at the same time, each a process
    files       \* the files they open: the ledger, its ".tmp", their texts

ledger_vars == <<ledger, clock, ticks, clocks, last, out>>
report_vars == <<rpc, data, now, month_start, month_end, idx, proj, interval,
                 cur_start, cur_end, segs, per_day_totals,
                 monthly_project_totals, days, weeks, printed, exported>>
parse_vars == <<arg, parsed>>
conc_vars == <<procs, files>>
vars == <<ledger_vars, report_vars, parse_vars, conc_vars>>

\* the clock the ledger commands start at
Clock0 == DateTime(2024, 3, 10, 23, 0, 0)

ReportIdle ==
    /\ rpc = "idle"
    /\ data = <<>>
    /\ now = 0
    /\ month_start = 0
    /\ month_end = 0
    /\ idx = 0
    /\ proj = ""
    /\ interval = None
    /\ cur_start = 0
    /\ cur_end = 0
    /\ segs = <<>>
    /\ per_day_totals = <<>>
    /\ monthly_project_totals = <<>>
    /\ days = <<>>
    /\ weeks = <<>>
    /\ printed = None
    /\ exported = None

\* no duration argument is looked at
ParseIdle ==
    /\ arg = None
    /\ parsed = None

\* one command at a time
ConcIdle == procs = None /\ files = None

\* no ledger file yet, no command run
Init ==
    /\ ledger = <<>>
    /\ clock = Clock0
    /\ ticks = 0
    /\ clocks = 0
    /\ last = "none"
    /\ out = "none"
    /\ ReportIdle
    /\ ParseIdle
    /\ ConcIdle

Tick ==
    /\ ticks < MaxTicks
    /\ \E d \in TickSteps : clock' = clock + d
    /\ ticks' = ticks + 1
    /\ last' = "tick"
    /\ out' = "none"
    /\ UNCHANGED <<ledger, clocks, report_vars, parse_vars, conc_vars>>

\* cmd_start, up to the clock loop it enters unless --no-clock is given
CmdStart ==
    /\ last' = "start"
    /\ IF Active(ledger)
       THEN /\ out' = "Already tracking"
            /\ UNCHANGED <<ledger, clocks>>
       ELSE /\ Len(ledger) < MaxLedger
            /\ \E project \in Projects, no_clock \in BOOLEAN :
                 /\ no_clock \/ clocks < MaxClocks
                 /\ ledger' = save_data(Append(ledger,
                       [project |-> project, start |-> isoformat(clock), end |-> None]))
                 /\ clocks' = IF no_clock THEN clocks ELSE clocks + 1
            /\ out' = "Started tracking"
    /\ UNCHANGED <<clock, ticks, report_vars, parse_vars, conc_vars>>

\* cmd_stop
CmdStop ==
    /\ last' = "stop"
    /\ IF ~Active(ledger)
       THEN /\ out' = "No active timer."
            /\ UNCHANGED ledger
       ELSE /\ ledger' = save_data(CloseLast(ledger, clock))
            /\ out' = "Stopped"
    /\ UNCHANGED <<clock, ticks, clocks, report_vars, parse_vars, conc_vars>>

\* Ctrl-C in a clock loop: the KeyboardInterrupt handler of cmd_start
CtrlC ==
    /\ clocks > 0
    /\ clocks' = clocks - 1
    /\ last' = "ctrl-c"
    /\ IF Active(ledger)
       THEN /\ ledger' = save_data(CloseLast(ledger, clock))
            /\ out' = "Stopped (via Ctrl-C)"
       ELSE /\ out' = "none"
            /\ UNCHANGED ledger
    /\ UNCHANGED <<clock, ticks, report_vars, parse_vars, conc_vars>>

\* SIGHUP or SIGTERM in a clock loop: _finalize_active_from_signal
Signal ==
    /\ clocks > 0
    /\ clocks' = clocks - 1
    /\ last' = "signal"
    /\ IF Active(ledger)
       THEN /\ ledger' = save_data(CloseLast(ledger, clock))
            /\ out' = "Stopped (via signal)"
       ELSE /\ out' = "none"
            /\ UNCHANGED ledger
    /\ UNCHANGED <<clock, ticks, report_vars, parse_vars, conc_vars>>

\* the entry cmd_log appends for a duration of secs seconds that ends at
\* end_time
LogEntry(project, secs, end_time) ==
    [project |-> project,
     start |-> isoformat(end_time - secs),
     end |-> isoformat(end_time),
     duration_seconds |-> secs,
     duration |-> secs_to_hms(secs),
     manual |-> TRUE]

\* cmd_log on a project and a duration argument
Log(project, duration) ==
    /\ last' = "log"
    /\ LET dur == LogDuration(duration) IN
         IF ~dur.ok
         THEN /\ out' = "Invalid duration"
              /\ UNCHANGED ledger
         ELSE /\ Len(ledger) < MaxLedger
              /\ ledger' = save_data(Append(ledger,
                                                LogEntry(project, dur.seconds, clock)))
              /\ out' = "Logged"
    /\ UNCHANGED <<clock, ticks, clocks, report_vars>>

\* cmd_log
CmdLog ==
    /\ \E project \in Projects, duration \in LogTexts : Log(project, duration)
    /\ UNCHANGED <<parse_vars, conc_vars>>

\* cmd_clear, with the ledger at its default place; the ledger file is there
\* exactly when a command has saved an entry since the last clear
CmdClear ==
    /\ last' = "clear"
    /\ ledger' = <<>>
    /\ out' = IF ledger # <<>> THEN "Deleted log file" ELSE "No log file to delete"
    /\ UNCHANGED <<clock, ticks, clocks, report_vars, parse_vars, conc_vars>>

Next == Tick \/ CmdStart \/ CmdStop \/ CtrlC \/ Signal \/ CmdLog \/ CmdClear

Spec == Init /\ [][Next]_vars

(***************************************************************************)
(* The monthly report: cmd_report.                                         *)
(***************************************************************************)
start_of_month(d) ==
    LET ymd == date_isoformat(d) IN DateTime(ymd[1], ymd[2], 1, 0, 0, 0)

\* a variant of end_of_month: December ends in its own year
end_of_month_SameYear(d) ==
    LET ymd == date_isoformat(d) IN
    IF ymd[2] = 12 THEN DateTime(ymd[1], 1, 1, 0, 0, 0)
                   ELSE DateTime(ymd[1], ymd[2] + 1, 1, 0, 0, 0)

end_of_month(d) ==
    LET ymd == date_isoformat(d) IN
    IF ymd[2] = 12 THEN DateTime(ymd[1] + 1, 1, 1, 0, 0, 0)
                   ELSE DateTime(ymd[1], ymd[2] + 1, 1, 0, 0, 0)

\* a variant of day_span: a day later, not cut to midnight
day_span_NoMidnight(dt) == dt + 86400

\* the next midnight from dt
day_span(dt) == Combine(DateOf(dt + 86400))

\* a variant of clamp_interval: the start is not clamped to the window
clamp_interval_NoMax(a, b, lo, hi) ==
    LET end == Min(b, hi)
    IN  IF end <= a THEN None ELSE <<a, end>>

\* a variant of clamp_interval: the end is not clamped to the window
clamp_interval_NoMin(a, b, lo, hi) ==
    LET start == Max(a, lo)
    IN  IF b <= start THEN None ELSE <<start, b>>

clamp_interval(a, b, lo, hi) ==
    LET start == Max(a, lo)
        end   == Min(b, hi)
    IN  IF end <= start THEN None ELSE <<start, end>>

\* a str or None taken as a condition
Truthy(x) == x # None

\* proj of the loop over data
EntryProject(e) == Get(e, "project", "(unknown)")

\* "if not start_s: continue"
EntrySkipped(e) == ~Truthy(Get(e, "start", None))

\* one of the two fromisoformat calls of the loop raises ValueError
EntryRaises(e) ==
    /\ ~EntrySkipped(e)
    /\ \/ ~IsIso(e["start"])
       \/ Truthy(Get(e, "end", None)) /\ ~IsIso(e["end"])

\* a variant of effective_end: an open interval runs to the window's end
effective_end_WindowEnd(end_s, t) ==
    IF end_s # None THEN fromisoformat(end_s) ELSE month_end

\* "end = datetime.fromisoformat(end_s) if end_s else now"
effective_end(end_s, t) == IF Truthy(end_s) THEN fromisoformat(end_s) ELSE t

\* the overlap of an entry with the window [ms, me), evaluated at t
EntryInterval(e, t, ms, me) ==
    clamp_interval(fromisoformat(e["start"]),
                   effective_end(Get(e, "end", None), t), ms, me)

\* a variant of Segment: the segment is not cut at the interval's end
Segment_NoMin(cs, ce) ==
    [day_key |-> date_isoformat(DateOf(cs)), start |-> cs,
     seg_end |-> day_span(cs), dur |-> day_span(cs) - cs]

\* one pass of the split loop's body from cs: the segment it emits
Segment(cs, ce) ==
    LET next_midnight == day_span(cs)
        seg_end       == Min(ce, next_midnight)
    IN  [day_key |-> date_isoformat(DateOf(cs)), start |-> cs,
         seg_end |-> seg_end, dur |-> seg_end - cs]

\* a variant of AddDay: the segment replaces the day's total
AddDay_Overwrite(pdt, day_key, p, dur) ==
    Put(pdt, day_key, Put(Get(pdt, day_key, <<>>), p, dur))

\* per_day_totals after a segment is added to it
AddDay(pdt, day_key, p, dur) ==
    LET day == Get(pdt, day_key, <<>>)
    IN  Put(pdt, day_key, Put(day, p, Get(day, p, 0) + dur))

\* a variant of AddMonth: the segment replaces the month's total
AddMonth_Overwrite(mpt, p, dur) == Put(mpt, p, dur)

\* monthly_project_totals after a segment is added to it
AddMonth(mpt, p, dur) == Put(mpt, p, Get(mpt, p, 0) + dur)

RECURSIVE SplitAll(_, _, _, _)
\* the whole split loop of one interval, on the totals acc
SplitAll(cs, ce, p, acc) ==
    IF cs < ce
    THEN LET sg == Segment(cs, ce)
         IN  SplitAll(sg.seg_end, ce, p,
                      [pd |-> AddDay(acc.pd, sg.day_key, p, sg.dur),
                       mp |-> AddMonth(acc.mp, p, sg.dur)])
    ELSE acc

RECURSIVE Aggregate(_, _, _, _, _)
\* the whole loop over the entries d, on the totals acc
Aggregate(d, t, ms, me, acc) ==
    IF d = <<>> THEN [raised |-> FALSE, pd |-> acc.pd, mp |-> acc.mp]
    ELSE LET e == Head(d) IN
         IF EntrySkipped(e) THEN Aggregate(Tail(d), t, ms, me, acc)
         ELSE IF EntryRaises(e) THEN [raised |-> TRUE, pd |-> <<>>, mp |-> <<>>]
         ELSE LET iv == EntryInterval(e, t, ms, me) IN
              IF iv = None THEN Aggregate(Tail(d), t, ms, me, acc)
              ELSE Aggregate(Tail(d), t, ms, me,
                             SplitAll(iv[1], iv[2], EntryProject(e), acc))

RECURSIVE DaysOfWindow_Inclusive(_, _)
\* a variant of DaysOfWindow: the window's end is taken as one of its days
DaysOfWindow_Inclusive(dcur, me) ==
    IF Combine(dcur) <= me THEN <<dcur>> \o DaysOfWindow_Inclusive(dcur + 1, me) ELSE <<>>

RECURSIVE DaysOfWindow(_, _)
\* the days of the window from dcur on, in order
DaysOfWindow(dcur, me) ==
    IF Combine(dcur) < me THEN <<dcur>> \o DaysOfWindow(dcur + 1, me) ELSE <<>>

\* the ISO (year, week) of a day
WeekKey(d) == <<isocalendar(d)[1], isocalendar(d)[2]>>

\* the OrderedDict weeks, as the list of its items in insertion order, after
\* dday is grouped
AddToWeek(w, dday) ==
    IF \E i \in DOMAIN w : w[i].key = WeekKey(dday)
    THEN [i \in DOMAIN w |->
            IF w[i].key = WeekKey(dday)
            THEN [key |-> w[i].key, days |-> Append(w[i].days, dday)]
            ELSE w[i]]
    ELSE Append(w, [key |-> WeekKey(dday), days |-> <<dday>>])

RECURSIVE GroupWeeks(_, _)
GroupWeeks(ds, w) ==
    IF ds = <<>> THEN w ELSE GroupWeeks(Tail(ds), AddToWeek(w, Head(ds)))

\* the text of a duration, as its sign, its hours and its minutes; with no
\* hours the text has the minutes only
human_td(delta) ==
    LET total_seconds == IF delta < 0 THEN -delta ELSE delta
        h             == total_seconds \div 3600
        m             == (total_seconds % 3600) \div 60
    IN  [neg |-> delta < 0, h |-> h, m |-> m]

\* the sort key x[0].lower() of a project, as its place in the order of str
LowerKey(p) ==
    CASE p = "(unknown)" -> 0
      [] p = "alpha"     -> 1
      [] p = "beta"      -> 2

RECURSIVE SortedItems(_, _)
\* the lines of the items of f on the keys S, sorted by LowerKey
SortedItems(f, S) ==
    IF S = {} THEN <<>>
    ELSE LET p == CHOOSE x \in S : \A y \in S : LowerKey(x) <= LowerKey(y)
         IN  <<[name |-> p, dur |-> f[p], text |-> human_td(f[p])]>>
                 \o SortedItems(f, S \ {p})

\* a variant of Total: the largest of the values
Total_Largest(f) ==
    IF DOMAIN f = {} THEN 0
    ELSE CHOOSE v \in {f[k] : k \in DOMAIN f} : \A k \in DOMAIN f : f[k] <= v

\* sum(f.values(), timedelta())
Total(f) == SumOver(f, DOMAIN f)

\* the lines of a day that is in per_day_totals
PrintDay(dday, pdt) ==
    LET projects  == pdt[date_isoformat(dday)]
        day_total == Total(projects)
    IN  [day |-> dday, total |-> day_total, text |-> human_td(day_total),
         projects |-> SortedItems(projects, DOMAIN projects)]

\* a variant of week_had_output: only the first day of the week is looked at
week_had_output_FirstDay(wdays, pdt) == date_isoformat(wdays[1]) \in DOMAIN pdt

\* week_had_output after the loop over the days of a week
week_had_output(wdays, pdt) ==
    \E i \in DOMAIN wdays : date_isoformat(wdays[i]) \in DOMAIN pdt

\* the days of a week the loop does not skip
ShownDays(wdays, pdt) ==
    SelectSeq(wdays, LAMBDA d : date_isoformat(d) \in DOMAIN pdt)

\* the block of a week: its label, its days, the "(no time)" line
PrintWeek(wk, pdt) ==
    LET shown == ShownDays(wk.days, pdt) IN
    [key         |-> wk.key,
     label_start |-> wk.days[1],
     label_end   |-> wk.days[Len(wk.days)],
     days        |-> [i \in DOMAIN shown |-> PrintDay(shown[i], pdt)],
     no_time     |-> ~week_had_output(wk.days, pdt)]

\* the "Monthly totals:" block
PrintMonthly(mpt) ==
    IF DOMAIN mpt # {}
    THEN [none    |-> FALSE,
          lines   |-> SortedItems(mpt, DOMAIN mpt),
          overall |-> Total(mpt),
          text    |-> human_td(Total(mpt))]
    ELSE [none |-> TRUE, lines |-> <<>>]

\* proj after a loop "for proj, dur in sorted(f.items(), ...)": the last key
\* in the order of the loop, or proj as it was when f has no item
BindItems(p, f) ==
    LET items == SortedItems(f, DOMAIN f)
    IN  IF items = <<>> THEN p ELSE items[Len(items)].name

RECURSIVE BindDays(_, _, _)
\* proj after the loop over the days ds, each day in pdt with its loop over
\* its items
BindDays(p, ds, pdt) ==
    IF ds = <<>> THEN p
    ELSE LET day_key == date_isoformat(Head(ds))
         IN  BindDays(IF day_key \in DOMAIN pdt THEN BindItems(p, pdt[day_key])
                                                ELSE p,
                      Tail(ds), pdt)

RECURSIVE BindWeeks(_, _, _)
\* proj after the loop over the weeks
BindWeeks(p, wks, pdt) ==
    IF wks = <<>> THEN p
    ELSE BindWeeks(BindDays(p, Head(wks).days, pdt), Tail(wks), pdt)

\* the place of the CSV file: the folder "<Month>-<year>" and the file
\* "Time Sheet - <Month> <year>.csv", as the year and the month they name
ExportPath(ms) ==
    LET ymd == date_isoformat(DateOf(ms))
    IN  [folder |-> <<ymd[2], ymd[1]>>, file |-> <<ymd[2], ymd[1]>>]

\* td_to_hm: the hours and the minutes of a duration
td_to_hm(td) ==
    LET total == td
        h     == total \div 3600
        rem   == total % 3600
        m     == rem \div 60
    IN  <<h, m>>

\* lines 504-507: the title, the window, an empty row, the column names
CsvHead(ms, me) ==
    << <<"Report for", date_isoformat(DateOf(ms))[2], date_isoformat(DateOf(ms))[1]>>,
       <<"From", date_isoformat(DateOf(ms)), "to", date_isoformat(DateOf(me - 86400))>>,
       <<>>,
       <<"Date", "Weekday", "Project", "Duration (HH:MM)">> >>

\* the rows of the items f of a day, sorted by LowerKey
CsvItems(dday, f) ==
    LET items == SortedItems(f, DOMAIN f)
    IN  [i \in DOMAIN items |->
            <<date_isoformat(dday), isocalendar(dday)[3], items[i].name,
              td_to_hm(items[i].dur)>>]

RECURSIVE CsvDays(_, _)
\* lines 510-521: the rows of the days that are in pdt, in the order of ds
CsvDays(ds, pdt) ==
    IF ds = <<>> THEN <<>>
    ELSE LET day_key == date_isoformat(Head(ds))
         IN  (IF day_key \in DOMAIN pdt THEN CsvItems(Head(ds), pdt[day_key])
                                        ELSE <<>>)
                 \o CsvDays(Tail(ds), pdt)

\* lines 524-532: the monthly totals
CsvMonthly(mpt) ==
    LET items == SortedItems(mpt, DOMAIN mpt)
    IN  << <<>>, <<"Monthly totals">> >>
            \o (IF DOMAIN mpt # {}
                THEN [i \in DOMAIN items |-> <<items[i].name, td_to_hm(items[i].dur)>>]
                         \o << <<"Overall", td_to_hm(Total(mpt))>> >>
                ELSE << <<"(no time this month)">> >>)

\* lines 390-393: there is no entry
ReportEmpty ==
    /\ rpc = "idle"
    /\ ledger = <<>>
    /\ data' = ledger
    /\ rpc' = "done"
    /\ last' = "report"
    /\ out' = "No entries yet"
    /\ UNCHANGED <<ledger, clock, ticks, clocks, now, month_start, month_end, idx,
                   proj, interval, cur_start, cur_end, segs, per_day_totals,
                   monthly_project_totals, days, weeks,
                   printed, exported, parse_vars, conc_vars>>

\* lines 390-403: the data is loaded, "now" is sampled, the window is set
ReportBegin ==
    /\ rpc = "idle"
    /\ ledger # <<>>
    /\ data' = ledger
    /\ now' = clock
    /\ month_start' = start_of_month(DateOf(clock))
    /\ month_end' = end_of_month(DateOf(clock))
    /\ per_day_totals' = <<>>
    /\ monthly_project_totals' = <<>>
    /\ idx' = 1
    /\ rpc' = "loop"
    /\ last' = "report"
    /\ out' = "none"
    /\ UNCHANGED <<ledger, clock, ticks, clocks, proj, interval, cur_start,
                   cur_end, segs, days, weeks,
                   printed, exported, parse_vars, conc_vars>>

\* the entry the loop is at
InLoop == rpc = "loop" /\ idx <= Len(data)

\* lines 405-410: an entry with no start
ReportSkip ==
    /\ InLoop
    /\ EntrySkipped(data[idx])
    /\ idx' = idx + 1
    /\ proj' = EntryProject(data[idx])
    /\ UNCHANGED <<ledger_vars, rpc, data, now, month_start, month_end, interval,
                   cur_start, cur_end, segs, per_day_totals,
                   monthly_project_totals, days, weeks,
                   printed, exported, parse_vars, conc_vars>>

\* lines 411-412: fromisoformat raises, and nothing catches it
ReportRaise ==
    /\ InLoop
    /\ EntryRaises(data[idx])
    /\ rpc' = "raised"
    /\ proj' = EntryProject(data[idx])
    /\ out' = "ValueError"
    /\ UNCHANGED <<ledger, clock, ticks, clocks, last, data, now, month_start,
                   month_end, idx, interval, cur_start, cur_end, segs,
                   per_day_totals, monthly_project_totals, days, weeks,
                   printed, exported, parse_vars, conc_vars>>

\* lines 415-417: no overlap with the window
ReportNoOverlap ==
    /\ InLoop
    /\ ~EntrySkipped(data[idx])
    /\ ~EntryRaises(data[idx])
    /\ EntryInterval(data[idx], now, month_start, month_end) = None
    /\ interval' = None
    /\ idx' = idx + 1
    /\ proj' = EntryProject(data[idx])
    /\ UNCHANGED <<ledger_vars, rpc, data, now, month_start, month_end,
                   cur_start, cur_end, segs, per_day_totals,
                   monthly_project_totals, days, weeks,
                   printed, exported, parse_vars, conc_vars>>

\* lines 415-418: the overlap with the window, to be split
ReportClamp ==
    /\ InLoop
    /\ ~EntrySkipped(data[idx])
    /\ ~EntryRaises(data[idx])
    /\ EntryInterval(data[idx], now, month_start, month_end) # None
    /\ LET iv == EntryInterval(data[idx], now, month_start, month_end) IN
         /\ interval' = iv
         /\ cur_start' = iv[1]
         /\ cur_end' = iv[2]
    /\ proj' = EntryProject(data[idx])
    /\ segs' = <<>>
    /\ rpc' = "split"
    /\ UNCHANGED <<ledger_vars, data, now, month_start, month_end, idx,
                   per_day_totals, monthly_project_totals, days, weeks,
                   printed, exported, parse_vars, conc_vars>>

\* lines 421-429: one pass of the split loop
ReportSplit ==
    /\ rpc = "split"
    /\ cur_start < cur_end
    /\ LET sg == Segment(cur_start, cur_end) IN
         /\ segs' = Append(segs, sg)
         /\ per_day_totals' = AddDay(per_day_totals, sg.day_key, proj, sg.dur)
         /\ monthly_project_totals' = AddMonth(monthly_project_totals, proj, sg.dur)
         /\ cur_start' = sg.seg_end
    /\ UNCHANGED <<ledger_vars, rpc, data, now, month_start, month_end, idx, proj,
                   interval, cur_end, days, weeks,
                   printed, exported, parse_vars, conc_vars>>

\* line 421: the split loop ends, the loop over data goes on
ReportSplitDone ==
    /\ rpc = "split"
    /\ ~(cur_start < cur_end)
    /\ idx' = idx + 1
    /\ rpc' = "loop"
    /\ UNCHANGED <<ledger_vars, data, now, month_start, month_end, proj, interval,
                   cur_start, cur_end, segs, per_day_totals,
                   monthly_project_totals, days, weeks,
                   printed, exported, parse_vars, conc_vars>>

\* lines 431-448: the days of the month, grouped by ISO week
ReportGroup ==
    /\ rpc = "loop"
    /\ idx > Len(data)
    /\ LET ds == DaysOfWindow(DateOf(month_start), month_end) IN
         /\ days' = ds
         /\ weeks' = GroupWeeks(ds, <<>>)
    /\ rpc' = "print"
    /\ UNCHANGED <<ledger_vars, data, now, month_start, month_end, idx, proj,
                   interval, cur_start, cur_end, segs, per_day_totals,
                   monthly_project_totals, printed, exported, parse_vars, conc_vars>>

\* lines 450-484: the report is printed; the loops over the items of a day and
\* of the month bind proj again
ReportPrint ==
    /\ rpc = "print"
    /\ LET pr == [from     |-> DateOf(month_start),
                  to       |-> DateOf(month_end - 86400),
                  weeks    |-> [i \in DOMAIN weeks |->
                                  PrintWeek(weeks[i], per_day_totals)],
                  monthly  |-> PrintMonthly(monthly_project_totals),
                  exported |-> None]
       IN  printed' = pr
    /\ proj' = BindItems(BindWeeks(proj, weeks, per_day_totals),
                         monthly_project_totals)
    /\ rpc' = "export"
    /\ UNCHANGED <<ledger_vars, data, now, month_start, month_end, idx,
                   interval, cur_start, cur_end, segs, per_day_totals,
                   monthly_project_totals, days, weeks, exported, parse_vars,
                   conc_vars>>

\* lines 486-541: the report is written as a CSV file under ~/Documents, which
\* can be written to, and the place of the file is printed
ReportExport ==
    /\ rpc = "export"
    /\ exported' = [path |-> ExportPath(month_start),
                    rows |-> CsvHead(month_start, month_end)
                               \o CsvDays(days, per_day_totals)
                               \o CsvMonthly(monthly_project_totals)]
    /\ printed' = [printed EXCEPT !.exported = ExportPath(month_start)]
    /\ proj' = BindItems(BindDays(proj, days, per_day_totals),
                         monthly_project_totals)
    /\ rpc' = "done"
    /\ UNCHANGED <<ledger_vars, data, now, month_start, month_end, idx,
                   interval, cur_start, cur_end, segs, per_day_totals,
                   monthly_project_totals, days, weeks, parse_vars, conc_vars>>

ReportNext ==
    \/ ReportEmpty \/ ReportBegin \/ ReportSkip \/ ReportRaise \/ ReportNoOverlap
    \/ ReportClamp \/ ReportSplit \/ ReportSplitDone \/ ReportGroup
    \/ ReportPrint \/ ReportExport

(***************************************************************************)
(* The report's inputs: the ledger file as it is found, and the clock.     *)
(***************************************************************************)
Rec(p, s, e) == [project |-> p, start |-> s, end |-> e]

\* "2024-13-01T00:00:00": no timestamp
BadStamp == <<2024, 13, 1, 0, 0, 0>>

Feb29_2330 == <<2024, 2, 29, 23, 30, 0>>
Mar01_0000 == <<2024, 3, 1, 0, 0, 0>>
Mar10_2330 == <<2024, 3, 10, 23, 30, 0>>
Mar11_0000 == <<2024, 3, 11, 0, 0, 0>>
Mar11_0100 == <<2024, 3, 11, 1, 0, 0>>
Mar31_2300 == <<2024, 3, 31, 23, 0, 0>>
Apr01_0000 == <<2024, 4, 1, 0, 0, 0>>
Apr02_0500 == <<2024, 4, 2, 5, 0, 0>>

\* the evaluation instant of the reports on ReportRecords
ReportNow == DateTime(2024, 3, 15, 10, 0, 0)

ReportRecords ==
    { Rec("alpha", Feb29_2330, Mar01_0000),   \* ends as the window starts
      Rec("alpha", Feb29_2330, Mar11_0100),   \* crosses the window's start
      Rec("alpha", Mar10_2330, Mar11_0100),   \* crosses a midnight
      Rec("alpha", Mar11_0000, Mar11_0100),   \* starts at midnight
      Rec("alpha", Mar10_2330, None),         \* open
      Rec("alpha", Mar31_2300, None),         \* open, starts after "now"
      Rec("alpha", Mar31_2300, Apr01_0000),   \* ends as the window ends
      Rec("alpha", Mar31_2300, Apr02_0500),   \* crosses the window's end
      Rec("alpha", Apr01_0000, Apr02_0500),   \* starts as the window ends
      Rec("alpha", Mar11_0100, Mar10_2330),   \* ends before it starts
      Rec("alpha", Mar10_2330, Mar10_2330),   \* empty
      Rec("alpha", None, Mar11_0100),         \* no start
      Rec("alpha", BadStamp, Mar11_0100),     \* a start that does not parse
      Rec("alpha", Mar10_2330, BadStamp),     \* an end that does not parse
      Rec("beta", Mar10_2330, Mar11_0100),
      Rec("beta", Mar11_0000, Mar11_0100),
      Rec("beta", Mar10_2330, None),
      Rec("beta", Mar31_2300, Apr02_0500),
      [project |-> "alpha", end |-> Mar11_0100],        \* no "start" key
      [project |-> "alpha", start |-> Mar10_2330],      \* no "end" key
      [start |-> Mar10_2330, end |-> Mar11_0100] }      \* no "project" key

\* the ledgers the report is run on at ReportNow
ReportLedgers == UNION { [1..n -> ReportRecords] : n \in 0..MaxRecords }

\* noon on the first day of every month of FirstYear..LastYear: the
\* evaluation instants the report is run at on CalendarLedger
CalendarNows ==
    { DateTime(y, m, 1, 12, 0, 0) : y \in FirstYear..LastYear, m \in 1..12 }

\* the last second of every month of FirstYear..LastYear
MonthEndNows ==
    { DateTime(y, m, days_in_month(y, m), 23, 59, 59) :
        y \in FirstYear..LastYear, m \in 1..12 }

CalendarLedger == << Rec("alpha", Mar10_2330, None) >>

\* one morning of work on two projects, one after the other
TwoProjectLedger ==
    << Rec("alpha", <<2024, 3, 1, 9, 0, 0>>, <<2024, 3, 1, 11, 0, 0>>),
       Rec("beta", <<2024, 3, 1, 11, 0, 0>>, <<2024, 3, 1, 11, 45, 0>>) >>

ReportInit ==
    /\ \/ ledger \in ReportLedgers /\ clock = ReportNow
       \/ ledger = CalendarLedger /\ clock \in CalendarNows \cup MonthEndNows
       \/ ledger = TwoProjectLedger /\ clock = ReportNow
    /\ ticks = 0
    /\ clocks = 0
    /\ last = "none"
    /\ out = "none"
    /\ ReportIdle
    /\ ParseIdle
    /\ ConcIdle

\* the split loop runs on: it has no suspension point
SpecReport ==
    ReportInit /\ [][ReportNext]_vars /\ WF_vars(ReportSplit \/ ReportSplitDone)

(***************************************************************************)
(* The duration argument: parse_duration on its own, and under cmd_log.    *)
(***************************************************************************)
MaxText == 3

\* the characters the typed arguments are made of
Alphabet == {"0", "1", "h", "m", "H", ":", ".", " ", "x"}

\* the arguments of up to MaxText characters
TypedTexts == UNION { [1..n -> Alphabet] : n \in 0..MaxText }

\* the arguments the documentation of the commands names
NamedTexts ==
    { <<"1", "h", "3", "0", "m">>, <<"4", "5", "m">>, <<"9", "0">>,
      <<"3", ".", "5">>, <<"0">>, <<"h", "3", "0", "m">>, <<"1", "x">>,
      <<"1", "h", "9", "0">>, <<"3", "0", "m", "1", "h">>,
      <<"1", "0", "m", "1", "h", "2", "0", "m">> }

DurationTexts == TypedTexts \cup NamedTexts

\* the ledger the log command finds: none, or one with a running timer
ParseLedgers ==
    { <<>>, << [project |-> "beta", start |-> isoformat(Clock0 - 3600), end |-> None] >> }

ParseInit ==
    /\ ledger \in ParseLedgers
    /\ clock = Clock0
    /\ ticks = 0
    /\ clocks = 0
    /\ last = "none"
    /\ out = "none"
    /\ ReportIdle
    /\ arg \in DurationTexts
    /\ parsed = None
    /\ ConcIdle

\* parse_duration is called on the argument
ParseArg ==
    /\ parsed = None
    /\ parsed' = parse_duration(arg)
    /\ UNCHANGED <<ledger_vars, report_vars, arg, conc_vars>>

\* tt time log alpha <arg>
LogArg ==
    /\ last = "none"
    /\ Log("alpha", arg)
    /\ UNCHANGED <<parse_vars, conc_vars>>

ParseNext == ParseArg \/ LogArg

SpecParse == ParseInit /\ [][ParseNext]_vars

(***************************************************************************)
(* Two commands at the same time, each a process of its own: one that      *)
(* closes the running timer (stop, or the Ctrl-C or signal finalization of *)
(* the clock process) and a log.  Each loads the ledger file and later     *)
(* saves it; save_data replaces the file in one step (os.replace).         *)
(***************************************************************************)
CloserCmds == {"stop", "ctrl-c", "signal"}

\* the durations the log is given, in seconds: "45m", "3.5"
ConcDurations == {LogDuration(<<"4", "5", "m">>).seconds, LogDuration(<<"3", ".", "5">>).seconds}

\* the ledger with a timer running for an hour
ConcLedger == << [project |-> "alpha", start |-> isoformat(Clock0 - 3600), end |-> None] >>

\* the number of characters of an int, as json.dump writes it
RECURSIVE IntLen(_)
IntLen(n) ==
    IF n < 0 THEN 1 + IntLen(-n) ELSE IF n < 10 THEN 1 ELSE 1 + IntLen(n \div 10)

\* the number of characters json.dump writes for the value of the key k:
\* a project name in quotes, null or "YYYY-MM-DDTHH:MM:SS", an int,
\* "HH:MM:SS", true
ValueLen(k, v) ==
    CASE k = "project"          -> Len(v) + 2
      [] k \in {"start", "end"} -> IF v = None THEN 4 ELSE 21
      [] k = "duration_seconds" -> IntLen(v)
      [] k = "duration"         -> Max(2, IntLen(v[1])) + 8
      [] k = "manual"           -> 4

\* the number of characters of an entry in json.dump(cleaned, f, indent=2):
\* "  {", a line '    "k": v' for every key, "  }"
EntryLen(e) ==
    LET K == DOMAIN e
    IN  4 + SumOver([k \in K |-> 4 + (Len(k) + 2) + 2 + ValueLen(k, e[k])], K)
          + 2 * (Cardinality(K) - 1) + 4

\* the number of characters of json.dump(cleaned, f, indent=2)
JsonLen(cleaned) ==
    IF cleaned = <<>> THEN 2
    ELSE LET I == DOMAIN cleaned
         IN  2 + SumOver([i \in I |-> EntryLen(cleaned[i])], I) + 2 * (Len(cleaned) - 1) + 2

\* the text of a file: its length, the list whose JSON text it starts with,
\* and whether it is that text and no more
EmptyText == [len |-> 0, data |-> <<>>, valid |-> FALSE]

\* the text of a file that holds json.dump of cleaned
TextOf(cleaned) == [len |-> JsonLen(cleaned), data |-> cleaned, valid |-> TRUE]

\* the text of a file after json.dump(cleaned) was written from its start by
\* a handle that did not truncate it since: what was longer stays behind it
WriteOver(text, cleaned) ==
    IF JsonLen(cleaned) >= text.len
    THEN TextOf(cleaned)
    ELSE [len |-> text.len, data |-> cleaned, valid |-> FALSE]

\* what load_data makes of the ledger file: its list, [] when the file is not
\* there or is not JSON
load_data(fs) ==
    IF fs.ledger = "none" THEN <<>>
    ELSE IF fs.text[fs.ledger].valid THEN fs.text[fs.ledger].data
    ELSE <<>>

\* the files after load_data: a ledger that is not JSON is renamed to ".bak"
AfterLoad(fs) ==
    IF fs.ledger # "none" /\ ~fs.text[fs.ledger].valid
    THEN [fs EXCEPT !.ledger = "none"]
    ELSE fs

Procs == {"closer", "logger"}

ConcInit ==
    /\ ledger = ConcLedger
    /\ clock = Clock0
    /\ ticks = 0
    /\ clocks = 0
    /\ last = "none"
    /\ out = "none"
    /\ ReportIdle
    /\ ParseIdle
    /\ \E cmd \in CloserCmds, project \in Projects, secs \in ConcDurations :
          procs = [closer |-> [cmd |-> cmd, pc |-> "idle", data |-> <<>>, at |-> 0,
                               fh |-> "none", out |-> "none"],
                   logger |-> [cmd |-> "log", pc |-> "idle", data |-> <<>>, at |-> 0,
                               fh |-> "none", out |-> "none",
                               project |-> project, secs |-> secs]]
    /\ files = [ledger |-> "orig", tmp |-> "none",
                text |-> [orig |-> TextOf(ConcLedger), closer |-> EmptyText,
                          logger |-> EmptyText]]

\* the clock goes on while the two commands run
ConcTick ==
    /\ ticks < MaxTicks
    /\ \E d \in TickSteps : clock' = clock + d
    /\ ticks' = ticks + 1
    /\ UNCHANGED <<ledger, clocks, last, out, report_vars, parse_vars, conc_vars>>

\* the handlers sample the clock before they load the ledger (lines 239, 265)
HandlerCmds == {"ctrl-c", "signal"}

\* what a closing command goes on with once it has the list and the instant:
\* with no timer running in the list it ends, nothing saved; else it sets the
\* end of the last entry
CloserGoesOn(p, loaded, end_dt) ==
    [p EXCEPT !.data = IF Active(loaded) THEN CloseLast(loaded, end_dt) ELSE loaded,
              !.pc = IF Active(loaded) THEN "loaded" ELSE "done",
              !.out = IF Active(loaded) \/ p.cmd # "stop"
                      THEN "none" ELSE "No active timer."]

\* datetime.now() of a closing command: the first statement of a handler
\* (lines 239, 265); in cmd_stop the statement after the check of what was
\* loaded (line 286)
CloserSample ==
    /\ \/ /\ procs.closer.cmd \in HandlerCmds
          /\ procs.closer.pc = "idle"
          /\ procs' = [procs EXCEPT !.closer.at = clock, !.closer.pc = "sampled"]
       \/ /\ procs.closer.cmd = "stop"
          /\ procs.closer.pc = "half"
          /\ procs' = [procs EXCEPT
                         !.closer = CloserGoesOn([@ EXCEPT !.at = clock], @.data, clock)]
    /\ UNCHANGED <<ledger, files, clock, ticks, clocks, last, out, report_vars,
                   parse_vars>>

\* load_data of a closing command and the check of what it loaded: the first
\* statements of cmd_stop (lines 282-285), which ends when no timer runs; in a
\* handler the statements after the clock was sampled (lines 240-250)
CloserLoad ==
    /\ LET loaded == load_data(files) IN
       \/ /\ procs.closer.cmd = "stop"
          /\ procs.closer.pc = "idle"
          /\ procs' = [procs EXCEPT
                         !.closer = IF Active(loaded)
                                    THEN [@ EXCEPT !.data = loaded, !.pc = "half"]
                                    ELSE CloserGoesOn(@, loaded, clock)]
       \/ /\ procs.closer.cmd \in HandlerCmds
          /\ procs.closer.pc = "sampled"
          /\ procs' = [procs EXCEPT
                         !.closer = CloserGoesOn(@, loaded, @.at)]
    /\ files' = AfterLoad(files)
    /\ ledger' = load_data(files')
    /\ UNCHANGED <<clock, ticks, clocks, last, out, report_vars, parse_vars>>

\* line 317 of cmd_log: the clock is sampled
LoggerSample ==
    /\ procs.logger.pc = "idle"
    /\ procs' = [procs EXCEPT !.logger.at = clock, !.logger.pc = "sampled"]
    /\ UNCHANGED <<ledger, files, clock, ticks, clocks, last, out, report_vars,
                   parse_vars>>

\* lines 318-328 of cmd_log: the ledger is loaded and the entry, which ends at
\* the instant sampled, is appended
LoggerLoad ==
    /\ procs.logger.pc = "sampled"
    /\ procs' = [procs EXCEPT
                   !.logger.data = Append(load_data(files),
                        LogEntry(procs.logger.project, procs.logger.secs,
                                 procs.logger.at)),
                   !.logger.pc = "loaded"]
    /\ files' = AfterLoad(files)
    /\ ledger' = load_data(files')
    /\ UNCHANGED <<clock, ticks, clocks, last, out, report_vars, parse_vars>>

\* line 58 of save_data: the ".tmp" file is opened for writing, which makes
\* it, or empties the one that is there
SaveOpen ==
    \E p \in Procs :
        /\ procs[p].pc = "loaded"
        /\ LET f == IF files.tmp = "none" THEN p ELSE files.tmp IN
              /\ files' = [files EXCEPT !.tmp = f, !.text[f] = EmptyText]
              /\ procs' = [procs EXCEPT ![p].fh = f, ![p].pc = "opened"]
        /\ ledger' = load_data(files')
        /\ UNCHANGED <<clock, ticks, clocks, last, out, report_vars, parse_vars>>

\* line 59 of save_data, to the end of the with block: the list is written to
\* the file that was opened, wherever that file is now, and the file is closed
SaveDump ==
    \E p \in Procs :
        /\ procs[p].pc = "opened"
        /\ files' = [files EXCEPT
                       !.text[procs[p].fh] = WriteOver(@, save_data(procs[p].data))]
        /\ procs' = [procs EXCEPT ![p].pc = "dumped"]
        /\ ledger' = load_data(files')
        /\ UNCHANGED <<clock, ticks, clocks, last, out, report_vars, parse_vars>>

\* line 60 of save_data: os.replace puts the ".tmp" file in the place of the
\* ledger, or raises FileNotFoundError when there is no ".tmp" file; then the
\* command prints what it did
SaveReplace ==
    \E p \in Procs :
        /\ procs[p].pc = "dumped"
        /\ IF files.tmp = "none"
           THEN /\ procs' = [procs EXCEPT ![p].pc = "failed"]
                /\ UNCHANGED files
           ELSE /\ files' = [files EXCEPT !.ledger = files.tmp, !.tmp = "none"]
                /\ procs' = [procs EXCEPT
                               ![p].pc = "done",
                               ![p].out = IF p = "logger" THEN "Logged" ELSE "Stopped"]
        /\ ledger' = load_data(files')
        /\ UNCHANGED <<clock, ticks, clocks, last, out, report_vars, parse_vars>>

ConcNext ==
    \/ ConcTick \/ CloserSample \/ CloserLoad \/ LoggerSample \/ LoggerLoad
    \/ SaveOpen \/ SaveDump \/ SaveReplace

SpecConc == ConcInit /\ [][ConcNext]_vars

(***************************************************************************)
(* The properties.                                                         *)
(***************************************************************************)
\* the entry whose overlap is being split
CurEntry == data[idx]

\* the start and the effective end of an entry whose timestamps parse
StartOf(e) == fromisoformat(e["start"])
EndOrNow(e) ==
    IF "end" \in DOMAIN e /\ e["end"] # None THEN fromisoformat(e["end"]) ELSE now

\* the length of the overlap of [StartOf(e), EndOrNow(e)) with the window
Overlap(e) == Min(EndOrNow(e), month_end) - Max(StartOf(e), month_start)

SegDurations == [i \in DOMAIN segs |-> segs[i].dur]

SplitEnded == rpc = "split" /\ ~(cur_start < cur_end)

\* C1: the durations of the day segments of an interval sum to its clamped
\* overlap with the window, min(effective_end, window_end) - max(start,
\* window_start), and every segment emitted has a duration > 0.
C1_SplitSum ==
    rpc = "split" =>
        /\ \A i \in DOMAIN segs : segs[i].dur > 0
        /\ SumSeq(SegDurations) <= Overlap(CurEntry)
        /\ SplitEnded => SumSeq(SegDurations) = Overlap(CurEntry)

\* an interval over several days has been split to its end
C1_Witness == SplitEnded /\ Len(segs) >= 3 /\ interval[1] # StartOf(CurEntry)

DaysWith(p) == {d \in DOMAIN per_day_totals : p \in DOMAIN per_day_totals[d]}

DayProjects == UNION {DOMAIN per_day_totals[d] : d \in DOMAIN per_day_totals}

\* the sum of a project's per-day totals
DaySum(p) == SumOver([d \in DaysWith(p) |-> per_day_totals[d][p]], DaysWith(p))

\* C2: for every project the sum of its per-day totals over all days is its
\* monthly total, after every segment and every interval folded in.
C2_DayMonthCrossCheck ==
    /\ DayProjects = DOMAIN monthly_project_totals
    /\ \A p \in DayProjects : DaySum(p) = monthly_project_totals[p]

\* two projects aggregated, one of them over several days
C2_Witness ==
    /\ rpc = "done"
    /\ Cardinality(DOMAIN monthly_project_totals) = 2
    /\ \E p \in DayProjects : Cardinality(DaysWith(p)) >= 2

\* C3: the ledger holds at most one entry with no end, and it is the last.
C3_OneOpenLast ==
    \A i \in DOMAIN ledger : ledger[i]["end"] = None => i = Len(ledger)

\* the last entry is closed, or there is none
NothingToClose == ledger = <<>> \/ ledger[Len(ledger)]["end"] # None

\* C4: a stop, a Ctrl-C or a signal that finds the last entry closed, or no
\* entry, leaves the ledger as it is.
C4_CloseIdempotent ==
    [][(last' \in {"stop", "ctrl-c", "signal"} /\ NothingToClose)
          => ledger' = ledger]_vars

\* a stop right after the stop that closed the entry
C4_Witness ==
    /\ last = "stop"
    /\ out = "No active timer."
    /\ ledger # <<>>
    /\ "manual" \notin DOMAIN ledger[Len(ledger)]

\* the entries of d with a start and with timestamps that parse
RECURSIVE WellFormed(_)
WellFormed(d) ==
    IF d = <<>> THEN <<>>
    ELSE IF EntrySkipped(Head(d)) \/ EntryRaises(Head(d)) THEN WellFormed(Tail(d))
    ELSE <<Head(d)>> \o WellFormed(Tail(d))

NoTotals == [pd |-> <<>>, mp |-> <<>>]

\* C5: a record whose start or end is missing or does not parse is skipped:
\* the report never raises, and its totals are those of the other records.
C5_MalformedSkipped ==
    /\ rpc # "raised"
    /\ rpc = "done" /\ data # <<>> =>
          LET r == Aggregate(WellFormed(data), now, month_start, month_end, NoTotals)
          IN  r.pd = per_day_totals /\ r.mp = monthly_project_totals

Permuted(perm) == [i \in DOMAIN data |-> data[perm[i]]]

\* C6: the report on any permutation of the entries has the same
\* per_day_totals and monthly_project_totals (and raises if this one does).
C6_OrderIndependent ==
    rpc \in {"done", "raised"} /\ data # <<>> =>
        \A perm \in Permutations(DOMAIN data) :
            LET r == Aggregate(Permuted(perm), now, month_start, month_end, NoTotals)
            IN  IF rpc = "raised" THEN r.raised
                ELSE /\ ~r.raised
                     /\ r.pd = per_day_totals
                     /\ r.mp = monthly_project_totals

\* two different intervals of one project that share a day
C6_Witness ==
    /\ rpc = "done"
    /\ data = << Rec("alpha", Mar10_2330, None), Rec("alpha", Mar10_2330, Mar11_0100) >>
    /\ per_day_totals[<<2024, 3, 11>>]["alpha"] = 86400 + 3600

\* an entry with a start and timestamps that parse
Usable(e) ==
    /\ "start" \in DOMAIN e
    /\ e["start"] # None
    /\ IsIso(e["start"])
    /\ "end" \in DOMAIN e /\ e["end"] # None => IsIso(e["end"])

\* the entry lies before the window, or after it, or overlaps it by nothing
OutsideWindow(e) ==
    \/ EndOrNow(e) <= month_start
    \/ StartOf(e) >= month_end
    \/ Overlap(e) <= 0

\* C7: an interval before the window, after it, or with an overlap of zero
\* length contributes no segment: the loop goes to the next entry with the
\* totals as they were.
C7_NoOverlapNoSegment ==
    [][(rpc = "loop" /\ idx <= Len(data) /\ Usable(data[idx])
            /\ OutsideWindow(data[idx]))
          => /\ rpc' = "loop"
             /\ idx' = idx + 1
             /\ per_day_totals' = per_day_totals
             /\ monthly_project_totals' = monthly_project_totals]_vars

\* a report of an interval before the window and one after it
C7_Witness ==
    /\ rpc = "done"
    /\ data = << Rec("alpha", Feb29_2330, Mar01_0000),
                 Rec("alpha", Apr01_0000, Apr02_0500) >>
    /\ per_day_totals = <<>>
    /\ monthly_project_totals = <<>>

\* the entry being split has no end
CurOpen == "end" \notin DOMAIN CurEntry \/ CurEntry["end"] = None

\* C8: an interval with no end is taken to end at "now": what it contributes
\* is the overlap of [start, now) with the window, nothing of it after now.
C8_OpenEndsNow ==
    rpc = "split" /\ CurOpen =>
        /\ interval = << Max(StartOf(CurEntry), month_start), Min(now, month_end) >>
        /\ cur_end = Min(now, month_end)
        /\ \A i \in DOMAIN segs : segs[i].seg_end <= now
        /\ SplitEnded =>
              SumSeq(SegDurations) = Min(now, month_end) - Max(StartOf(CurEntry), month_start)

\* an open interval split to its end, which is "now", before the window's
C8_Witness ==
    /\ SplitEnded
    /\ CurOpen
    /\ now < month_end
    /\ segs[Len(segs)].seg_end = now
    /\ Len(segs) >= 2

\* the day a segment is credited to is the day of its start
CreditedToStartDay(sg) ==
    /\ Len(sg.day_key) = 3
    /\ Date(sg.day_key[1], sg.day_key[2], sg.day_key[3]) = sg.start \div 86400

C9_Segments ==
    rpc = "split" =>
        /\ \A i \in DOMAIN segs :
              /\ segs[i].start < segs[i].seg_end
              /\ segs[i].start \div 86400 = (segs[i].seg_end - 1) \div 86400
              /\ segs[i].dur = segs[i].seg_end - segs[i].start
              /\ CreditedToStartDay(segs[i])
        /\ segs # <<>> => segs[1].start = interval[1]
        /\ \A i \in 1..(Len(segs) - 1) :
              /\ segs[i + 1].start = segs[i].seg_end
              /\ segs[i + 1].start \div 86400 = (segs[i].start \div 86400) + 1
        /\ SplitEnded =>
              /\ segs[Len(segs)].seg_end = interval[2]
              /\ Len(segs) = ((interval[2] - 1) \div 86400) - (interval[1] \div 86400) + 1
        /\ SplitEnded /\ CurEntry = Rec("alpha", Mar10_2330, Mar11_0100)
                      /\ month_start = DateTime(2024, 3, 1, 0, 0, 0) =>
              /\ Len(segs) = 2
              /\ segs[1].day_key = <<2024, 3, 10>> /\ segs[1].dur = 30 * 60
              /\ segs[2].day_key = <<2024, 3, 11>> /\ segs[2].dur = 60 * 60

\* C9: the split loop ends, and it emits in order one segment for each day
\* the range touches, each within one day and credited to the day of its
\* start (so 23:30 to 01:00 gives 30 minutes, then 60 minutes the next day,
\* and a start at midnight is credited to its own day).
C9_SplitByDay == []C9_Segments /\ ((rpc = "split") ~> (rpc # "split"))

\* 23:30 to 01:00 split, and an interval from midnight split
C9_Witness ==
    /\ rpc = "done"
    /\ data = << Rec("alpha", Mar10_2330, Mar11_0100), Rec("beta", Mar11_0000, Mar11_0100) >>
    /\ per_day_totals = (<<2024, 3, 10>> :> ("alpha" :> 1800)
                         @@ <<2024, 3, 11>> :> ("alpha" :> 3600 @@ "beta" :> 3600))

\* the days d with window_start <= d < window_end
WindowDays ==
    {d \in (DateOf(month_start) - 1)..(DateOf(month_end) + 1) :
        Combine(d) >= month_start /\ Combine(d) < month_end}

\* where a day is listed in weeks
PlacesOf(d) ==
    {<<i, j>> \in (DOMAIN weeks) \X (1..31) : j <= Len(weeks[i].days) /\ weeks[i].days[j] = d}

\* the Monday-to-Sunday week of a day (2000-01-03 was a Monday)
MondayWeek(d) == (d - 2) \div 7

\* C10: every day of the month is in exactly one week bucket and no other
\* day is in any; a bucket holds the days of one ISO week in ascending
\* order; the buckets are in the order of their first days.
C10_WeekCoverage ==
    rpc = "done" /\ data # <<>> =>
        /\ \A d \in WindowDays : Cardinality(PlacesOf(d)) = 1
        /\ \A i \in DOMAIN weeks :
              /\ weeks[i].days # <<>>
              /\ \A j \in DOMAIN weeks[i].days :
                    /\ weeks[i].days[j] \in WindowDays
                    /\ MondayWeek(weeks[i].days[j]) = MondayWeek(weeks[i].days[1])
                    /\ j > 1 => weeks[i].days[j - 1] < weeks[i].days[j]
        /\ \A i \in 1..(Len(weeks) - 1) :
              /\ weeks[i].days[1] < weeks[i + 1].days[1]
              /\ MondayWeek(weeks[i].days[1]) < MondayWeek(weeks[i + 1].days[1])
              /\ weeks[i].key # weeks[i + 1].key

\* a month grouped whose weeks are of two ISO years
C10_Witness ==
    /\ rpc = "done"
    /\ weeks # <<>>
    /\ weeks[1].key[1] # weeks[Len(weeks)].key[1]
    /\ Len(weeks) >= 5

\* the clamped overlap the i-th entry brings to the month, nothing if it is
\* skipped
UsableOverlap(i) == IF Usable(data[i]) THEN Max(0, Overlap(data[i])) ELSE 0

OverlapSum == SumOver([i \in DOMAIN data |-> UsableOverlap(i)], DOMAIN data)

MonthSum == SumOver(monthly_project_totals, DOMAIN monthly_project_totals)

\* the printed line of a project
Line(p, secs, h, m) ==
    [name |-> p, dur |-> secs, text |-> [neg |-> FALSE, h |-> h, m |-> m]]

\* C11: the overall total of a printed report is the sum of the monthly
\* project totals, which is the sum over the usable entries of their clamped
\* overlap with the month; alpha 09:00-11:00 and beta 11:00-11:45 on
\* 2024-03-01 print alpha 2h00m, beta 45m, overall 2h45m, both projects under
\* 2024-03-01.
C11_OverallIsSum ==
    (rpc = "done" /\ data # <<>>) =>
        /\ MonthSum = OverlapSum
        /\ printed.monthly.none <=> OverlapSum = 0
        /\ ~printed.monthly.none =>
              /\ printed.monthly.overall = MonthSum
              /\ printed.monthly.text = human_td(OverlapSum)
              /\ \A p \in DOMAIN monthly_project_totals :
                    \E i \in DOMAIN printed.monthly.lines :
                       /\ printed.monthly.lines[i].name = p
                       /\ printed.monthly.lines[i].dur = monthly_project_totals[p]
        /\ data = TwoProjectLedger =>
              /\ printed.monthly.lines =
                    << Line("alpha", 7200, 2, 0), Line("beta", 2700, 0, 45) >>
              /\ printed.monthly.text = [neg |-> FALSE, h |-> 2, m |-> 45]
              /\ printed.weeks[1].days =
                    << [day      |-> Date(2024, 3, 1),
                        total    |-> 9900,
                        text     |-> [neg |-> FALSE, h |-> 2, m |-> 45],
                        projects |-> << Line("alpha", 7200, 2, 0),
                                        Line("beta", 2700, 0, 45) >>] >>

\* the report of the two-project morning is printed
C11_Witness ==
    /\ rpc = "done"
    /\ data = TwoProjectLedger
    /\ printed.monthly.overall = 9900

\* the places in the i-th week bucket of the days with tracked time
Tracked(i) ==
    {j \in DOMAIN weeks[i].days :
        date_isoformat(weeks[i].days[j]) \in DOMAIN per_day_totals}

\* C12: the printed report has one block per ISO week bucket, in the order of
\* the buckets; a block shows the days of its bucket that are in
\* per_day_totals, in the bucket's order, and no other day; its "(no time)"
\* line is there exactly when none of its days has tracked time.
C12_WeekBlocks ==
    (rpc = "done" /\ data # <<>>) =>
        /\ Len(printed.weeks) = Len(weeks)
        /\ \A i \in DOMAIN weeks :
              LET blk == printed.weeks[i] IN
              /\ blk.key = weeks[i].key
              /\ Len(blk.days) = Cardinality(Tracked(i))
              /\ {blk.days[j].day : j \in DOMAIN blk.days}
                    = {weeks[i].days[j] : j \in Tracked(i)}
              /\ \A j, k \in DOMAIN blk.days :
                    j < k => blk.days[j].day < blk.days[k].day
              /\ \A j \in DOMAIN blk.days : blk.days[j].total > 0
              /\ blk.no_time <=> Tracked(i) = {}

\* a report with a week of no time and a week some of whose days, but not the
\* first, have time
C12_Witness ==
    /\ rpc = "done"
    /\ data # <<>>
    /\ \E i \in DOMAIN printed.weeks : printed.weeks[i].no_time
    /\ \E i \in DOMAIN printed.weeks :
          /\ printed.weeks[i].days # <<>>
          /\ 1 \notin Tracked(i)
          /\ ~printed.weeks[i].no_time

Units == {"h", "m"}

\* s is made of digit runs, each immediately followed by a unit
IsUnitString(s) ==
    /\ s # <<>>
    /\ \A i \in DOMAIN s : s[i] \in Digits \cup Units
    /\ s[Len(s)] \in Units
    /\ \A i \in DOMAIN s : s[i] \in Units => i > 1 /\ s[i - 1] \in Digits

\* the number a digit of a run stands for: place k of the run s[j..i-1]
PlaceValue(s, k, i) == DigitValue(s[k]) * Pow10(i - 1 - k)

\* the value of the digit run that ends right before place i of s
RunBefore(s, i) ==
    LET j == CHOOSE x \in 1..(i - 1) :
                /\ \A k \in x..(i - 1) : s[k] \in Digits
                /\ x = 1 \/ s[x - 1] \notin Digits
        R == j..(i - 1)
    IN  SumOver([k \in R |-> PlaceValue(s, k, i)], R)

\* the sum of the digit runs of s that the unit u follows
UnitSum(s, u) ==
    LET P == {i \in DOMAIN s : s[i] = u}
    IN  SumOver([i \in P |-> RunBefore(s, i)], P)

UnitMinutes(s) == 60 * UnitSum(s, "h") + UnitSum(s, "m")

\* the value of a run of digits
RunValue(s) == RunBefore(Append(s, "m"), Len(s) + 1)

Text_1h30m == <<"1", "h", "3", "0", "m">>
Text_45m == <<"4", "5", "m">>
Text_90 == <<"9", "0">>
Text_3p5 == <<"3", ".", "5">>

\* a decimal number: digits, with at most one "." among them
IsPlainNumber(s) ==
    /\ \A i \in DOMAIN s : s[i] \in Digits \cup {"."}
    /\ \E i \in DOMAIN s : s[i] \in Digits
    /\ Cardinality({i \in DOMAIN s : s[i] = "."}) <= 1

\* the whole seconds of a decimal number of hours
HoursInSeconds(s) ==
    LET dots == {i \in DOMAIN s : s[i] = "."}
        d    == IF dots = {} THEN Len(s) + 1 ELSE CHOOSE i \in dots : TRUE
        int  == SubSeq(s, 1, d - 1)
        frac == SubSeq(s, d + 1, Len(s))
        whole == IF int = <<>> THEN 0 ELSE RunValue(int)
        part  == IF frac = <<>> THEN 0 ELSE RunValue(frac)
    IN  whole * 3600 + ((part * 3600) \div Pow10(Len(frac)))

LastEntry == ledger[Len(ledger)]

\* the last entry is one that a log command wrote
LastIsManual == ledger # <<>> /\ "manual" \in DOMAIN LastEntry

\* C13: on digit runs each immediately followed by "h" or "m", parse_duration
\* returns 60 times the sum of the hour runs plus the sum of the minute runs,
\* whatever the order and the repetition of the units (when that is > 0); digits
\* with no unit anywhere are that many minutes; "1h30m" is 90, "45m" is 45, "90"
\* is 90 minutes.  cmd_log takes a plain decimal number as hours: "3.5", which
\* parse_duration rejects, is logged as 210 minutes.
C13_ParseDuration ==
    /\ parsed # None =>
          /\ (IsUnitString(arg) /\ UnitMinutes(arg) > 0) =>
                parsed = [ok |-> TRUE, minutes |-> UnitMinutes(arg)]
          /\ (IsDigitStr(arg) /\ RunValue(arg) > 0) =>
                parsed = [ok |-> TRUE, minutes |-> RunValue(arg)]
          /\ arg = Text_1h30m => parsed = [ok |-> TRUE, minutes |-> 90]
          /\ arg = <<"3", "0", "m", "1", "h">> => parsed = [ok |-> TRUE, minutes |-> 90]
          /\ arg = Text_45m => parsed = [ok |-> TRUE, minutes |-> 45]
          /\ arg = Text_90 => parsed = [ok |-> TRUE, minutes |-> 90]
          /\ arg = Text_3p5 => ~parsed.ok
    /\ last = "log" =>
          /\ (IsPlainNumber(arg) /\ HoursInSeconds(arg) > 0) =>
                /\ out = "Logged"
                /\ LastIsManual
                /\ LastEntry["duration_seconds"] = HoursInSeconds(arg)
          /\ arg = Text_3p5 =>
                /\ LastIsManual
                /\ LastEntry["duration_seconds"] = 210 * 60
                /\ fromisoformat(LastEntry["end"]) - fromisoformat(LastEntry["start"])
                      = 210 * 60

\* "10m1h20m" is parsed as 90 minutes, and logged as 90 minutes
C13_Witness ==
    /\ arg = <<"1", "0", "m", "1", "h", "2", "0", "m">>
    /\ IsUnitString(arg)
    /\ parsed = [ok |-> TRUE, minutes |-> 90]
    /\ last = "log"
    /\ LastIsManual
    /\ LastEntry["duration_seconds"] = 5400

\* a unit of s that has no digit before it (colons aside)
UnitWithoutDigits(s) ==
    \E i \in DOMAIN s :
        /\ s[i] \in Units
        /\ LET before == {j \in 1..(i - 1) : s[j] # ":"}
           IN  before = {} \/ s[CHOOSE j \in before : \A k \in before : k <= j] \notin Digits

\* a character of s that is no digit, no unit and no colon
Unrecognized(s) == \E i \in DOMAIN s : s[i] \notin Digits \cup Units \cup {":"}

\* the total, in minutes, of a string with neither fault
TotalOf(s) ==
    LET c     == SelectSeq(s, LAMBDA ch : ch # ":")
        units == {i \in DOMAIN c : c[i] \in Units}
        lastu == CHOOSE i \in units : \A k \in units : k <= i
    IN  IF units # {} THEN UnitMinutes(SubSeq(c, 1, lastu))
        ELSE IF c = <<>> THEN 0
        ELSE RunValue(c)

\* parse_duration has to reject s
ParseFault(s) ==
    LET c == Lower(Strip(s)) IN
    \/ UnitWithoutDigits(c)
    \/ Unrecognized(c)
    \/ TotalOf(c) <= 0

\* the log command has to reject s
LogFault(s) ==
    IF IsPlainNumber(Strip(s))
    THEN \A i \in DOMAIN s : s[i] \in {"0", ".", " "}
    ELSE ParseFault(Strip(s))

Text_0 == <<"0">>
Text_h30m == <<"h", "3", "0", "m">>
Text_1x == <<"1", "x">>

\* C14: parse_duration rejects its input when a unit has no digits before it,
\* when a character is not recognized, or when the total is <= 0, and accepts
\* it otherwise; the log command rejects a plain number of hours <= 0; "0",
\* "h30m" and "1x" are rejected; a log command with a rejected duration leaves
\* the ledger as it was.
C14_Rejected ==
    [][ /\ parsed' # None =>
              /\ parsed'.ok <=> ~ParseFault(arg')
              /\ parsed'.ok => parsed'.minutes > 0
              /\ arg' \in {Text_0, Text_h30m, Text_1x} => ~parsed'.ok
        /\ (last = "none" /\ last' = "log") =>
              /\ LogFault(arg) <=> out' = "Invalid duration"
              /\ LogFault(arg) => ledger' = ledger
              /\ ~LogFault(arg) => Len(ledger') = Len(ledger) + 1
      ]_vars

\* "h30m" was rejected by parse_duration, and by a log command on a ledger with
\* an entry
C14_Witness ==
    /\ arg = Text_h30m
    /\ parsed = [ok |-> FALSE, minutes |-> 0]
    /\ last = "log"
    /\ out = "Invalid duration"
    /\ Len(ledger) = 1

Text_1h90 == <<"1", "h", "9", "0">>

\* s up to place i is digit runs each followed by a unit, and the rest of s
\* is digits
SplitsAt(s, i) ==
    /\ i < Len(s)
    /\ IsUnitString(SubSeq(s, 1, i))
    /\ \A k \in (i + 1)..Len(s) : s[k] \in Digits

\* s is digit runs each followed by a unit, and then digits with no unit
HasTrailingDigits(s) == \E i \in DOMAIN s : SplitsAt(s, i)

\* the part of s with the units, and the digits after it
UnitPart(s) == SubSeq(s, 1, CHOOSE i \in DOMAIN s : SplitsAt(s, i))
TrailingPart(s) == SubSeq(s, Len(UnitPart(s)) + 1, Len(s))

\* C15, as stated: digits with no unit that trail after a unit are added as
\* minutes; "1h90" is 60 + 90 = 150 minutes.
C15_TrailingAdded ==
    (parsed # None /\ HasTrailingDigits(arg)) =>
        /\ parsed = [ok |-> TRUE,
                     minutes |-> UnitMinutes(UnitPart(arg)) + RunValue(TrailingPart(arg))]
        /\ arg = Text_1h90 => parsed = [ok |-> TRUE, minutes |-> 150]

\* C15, amended: digits with no unit that trail after a unit are dropped, the
\* result is the total of the digit runs that a unit follows (rejected when
\* that is 0); "1h90" is 60 minutes.
C15_TrailingDropped ==
    (parsed # None /\ HasTrailingDigits(arg)) =>
        /\ IF UnitMinutes(UnitPart(arg)) > 0
           THEN parsed = [ok |-> TRUE, minutes |-> UnitMinutes(UnitPart(arg))]
           ELSE ~parsed.ok
        /\ arg = Text_1h90 => parsed = [ok |-> TRUE, minutes |-> 60]

\* "1h90" is parsed
C15_Witness ==
    /\ arg = Text_1h90
    /\ HasTrailingDigits(arg)
    /\ parsed = [ok |-> TRUE, minutes |-> 60]

\* C16: a start, a stop, a log, a Ctrl-C or a signal (no clear) leaves every
\* entry of the ledger in its place, with its project and its start; an entry
\* whose end is set is left as it is, its end and its duration fields
\* included; the ledger changes at its tail only.
C16_TailGrowth ==
    [][last' # "clear" =>
          /\ Len(ledger') >= Len(ledger)
          /\ \A i \in DOMAIN ledger :
                /\ ledger'[i]["project"] = ledger[i]["project"]
                /\ ledger'[i]["start"] = ledger[i]["start"]
                /\ ledger[i]["end"] # None => ledger'[i] = ledger[i]
                /\ i < Len(ledger) => ledger'[i] = ledger[i]]_vars

\* a second timer was started after the first was stopped, and stopped too
C16_Witness ==
    /\ Len(ledger) = 2
    /\ \A i \in 1..2 :
          /\ ledger[i]["end"] # None
          /\ "manual" \notin DOMAIN ledger[i]
          /\ "duration_seconds" \in DOMAIN ledger[i]
    /\ last = "stop"

\* C17: every entry of the ledger whose end is set has a duration_seconds, the
\* whole seconds of its end minus its start, and it is >= 0 (the clock does
\* not go back).
C17_DurationOfClosed ==
    \A i \in DOMAIN ledger :
        ledger[i]["end"] # None =>
            /\ "duration_seconds" \in DOMAIN ledger[i]
            /\ ledger[i]["duration_seconds"]
                  = fromisoformat(ledger[i]["end"]) - fromisoformat(ledger[i]["start"])
            /\ ledger[i]["duration_seconds"] >= 0
            /\ ledger[i]["duration"] = secs_to_hms(ledger[i]["duration_seconds"])

\* a timer closed by a signal after the clock went on, and a logged entry
C17_Witness ==
    /\ Len(ledger) = 2
    /\ last = "signal"
    /\ ledger[2]["end"] # None
    /\ ledger[2]["duration_seconds"] > 0
    /\ "manual" \in DOMAIN ledger[1]

\* the year, the month and the day of an instant
YmdOf(dt) == date_isoformat(DateOf(dt))

\* C18: the window of a report is the month of its reference instant:
\* month_start <= now < month_end, month_start is midnight of day 1 of the
\* month, month_end is midnight of day 1 of the next month, January 1 of the
\* next year for a December date; the second before month_end is in the month.
C18_MonthWindow ==
    (rpc \notin {"idle"} /\ data # <<>>) =>
        /\ month_start <= now
        /\ now < month_end
        /\ Combine(DateOf(month_start)) = month_start
        /\ YmdOf(month_start) = <<YmdOf(now)[1], YmdOf(now)[2], 1>>
        /\ Combine(DateOf(month_end)) = month_end
        /\ YmdOf(month_end)[3] = 1
        /\ YmdOf(month_end)[2] = (YmdOf(now)[2] % 12) + 1
        /\ YmdOf(month_end)[1] = YmdOf(now)[1] + (IF YmdOf(now)[2] = 12 THEN 1 ELSE 0)
        /\ YmdOf(month_end - 1)[1] = YmdOf(now)[1]
        /\ YmdOf(month_end - 1)[2] = YmdOf(now)[2]
        /\ month_end - month_start = 86400 * days_in_month(YmdOf(now)[1], YmdOf(now)[2])

\* a report run in the last second of a December
C18_Witness ==
    /\ rpc = "done"
    /\ data # <<>>
    /\ YmdOf(now)[2] = 12
    /\ YmdOf(now)[3] = 31
    /\ YmdOf(month_end) = <<YmdOf(now)[1] + 1, 1, 1>>

\* the last entry of the ledger has no end
LastOpen == ledger # <<>> /\ ledger[Len(ledger)]["end"] = None

\* C19: a start that finds the last entry open is refused: the ledger is left
\* as it is, nothing appended, the open entry untouched.
C19_StartRefused ==
    [][(last' = "start" /\ LastOpen) =>
          /\ ledger' = ledger
          /\ out' = "Already tracking"]_vars

\* a start refused on a running timer
C19_Witness ==
    /\ last = "start"
    /\ out = "Already tracking"
    /\ LastOpen

\* both commands have ended
BothDone ==
    /\ procs # None
    /\ procs.closer.pc \in {"done", "failed"}
    /\ procs.logger.pc \in {"done", "failed"}

\* each command loaded the ledger before the other saved: the closing command
\* found the timer running, the log found it running and appended to it
Interleaved ==
    /\ Len(procs.closer.data) = 1
    /\ procs.closer.data[1]["end"] # None
    /\ Len(procs.logger.data) = 2
    /\ procs.logger.data[1] = ConcLedger[1]

\* C20: when a log and a command that closes the running timer have run with
\* their loads and saves interleaved, the ledger they leave has the logged
\* entry and has the timer closed: no update is lost.
C20_NoLostUpdate ==
    (BothDone /\ Interleaved) =>
        /\ \E i \in DOMAIN ledger : "manual" \in DOMAIN ledger[i]
        /\ ledger # <<>>
        /\ ledger[1]["project"] = "alpha"
        /\ ledger[1]["end"] # None

\* the places in the week buckets of the day with the key k
BucketPlaces(k) ==
    {<<i, j>> \in (DOMAIN weeks) \X (1..7) :
        j <= Len(weeks[i].days) /\ date_isoformat(weeks[i].days[j]) = k}

\* the places in the printed report of the days that are shown
ShownPlaces ==
    {<<i, j>> \in (DOMAIN printed.weeks) \X (1..7) : j <= Len(printed.weeks[i].days)}

\* the sum of the day totals the report shows
ShownSum ==
    SumOver([pl \in ShownPlaces |-> printed.weeks[pl[1]].days[pl[2]].total], ShownPlaces)

\* C21: every day key of per_day_totals is a day of the report window and is
\* in exactly one week bucket, and shown once in the printed report; the day
\* totals shown over all the week blocks sum to the overall total of the month.
C21_AllDaysShown ==
    (rpc = "done" /\ data # <<>>) =>
        /\ \A k \in DOMAIN per_day_totals :
              /\ \E d \in WindowDays : date_isoformat(d) = k
              /\ Cardinality(BucketPlaces(k)) = 1
              /\ Cardinality({pl \in ShownPlaces :
                    date_isoformat(printed.weeks[pl[1]].days[pl[2]].day) = k}) = 1
        /\ ShownSum = MonthSum
        /\ ShownSum = (IF printed.monthly.none THEN 0 ELSE printed.monthly.overall)

\* a report that shows days in two weeks, one of them the last day of the month
C21_Witness ==
    /\ rpc = "done"
    /\ data # <<>>
    /\ Cardinality({i \in DOMAIN printed.weeks : printed.weeks[i].days # <<>>}) >= 2
    /\ date_isoformat(DateOf(month_end - 1)) \in DOMAIN per_day_totals
    /\ ShownSum > 86400

=============================================================================
